---- MODULE Spec2Model ----
(***************************************************************************)
(* Model of CryptoRSITracker (src/rsicalculator.py): the polling loop      *)
(* run(), the price lookup fetch_price(), the indicator calculate_rsi()    *)
(* and the CSV sink log_data().                                            *)
(*                                                                         *)
(* Numbers.  Prices are floats in the program; here they are small         *)
(* positive integers.  The indicator is carried in hundredths (80.00 is    *)
(* 8000), computed by exact rational arithmetic and rounded half-to-even   *)
(* as round(rsi, 2) does.  For the price ranges below the sum of gains     *)
(* and losses stays under 32, so no value falls on a rounding tie and the  *)
(* float computation of the program agrees with the exact one.             *)
(* Durations are whole seconds; random.uniform(-2, 2) is drawn from the    *)
(* integers of its range.                                                  *)
(***************************************************************************)
EXTENDS Integers, Sequences, FiniteSets, TLC

VARIABLES
    period,      \* self.period
    api_delay,   \* self.api_delay
    prices,      \* self.prices
    rsi,         \* run(): local rsi, the last result of calculate_rsi
    pc,          \* position of run() in its loop body
    err,         \* kind of the exception being handled, "none" otherwise
    sleep_dur,   \* argument of the time.sleep call in progress, 0 otherwise
    sink,        \* what log_data did in the current iteration
    log_calls,   \* number of log_data calls made so far
    fetched,     \* every price fetch_price has returned so far, oldest first
    sources,     \* what the sources contacted by the last fetch_price call
                 \* answered, in order; <<>> once run() has moved past it
    outcome      \* "running", or how run() was left

vars == <<period, api_delay, prices, rsi, pc, err, sleep_dur, sink,
          log_calls, fetched, sources, outcome>>

(***************************************************************************)
(* Bounds of the model.                                                    *)
(***************************************************************************)
MaxPeriod == 2      \* periods 1..MaxPeriod
MaxQuote == 2       \* prices returned by fetch_price: 1..MaxQuote
MaxFetches == 4     \* successful fetches followed in one run
MaxPrice == 4       \* prices handed to calculate_rsi on its own: 1..MaxPrice
MaxLen == 5         \* longest sequence handed to calculate_rsi on its own

(***************************************************************************)
(* Constants of the program.                                               *)
(***************************************************************************)
JitterRange == 2    \* random.uniform(-2, 2)
MaxBackoff == 300   \* min(self.api_delay * 2, 300)
None == -1          \* calculate_rsi's "return None" (no indicator is negative)
DefaultApiDelay == 60   \* api_delay: int = 60, and api_delay=60 in __main__

Periods == 1..MaxPeriod
ApiDelays == {1, 60, 300}
Quotes == 1..MaxQuote
Prices == 1..MaxPrice

Min(a, b) == IF a < b THEN a ELSE b

\* prices[-n:] for n >= 1
LastN(s, n) ==
    IF Len(s) <= n THEN s ELSE SubSeq(s, Len(s) - n + 1, Len(s))

RECURSIVE Sum(_)
Sum(s) == IF s = <<>> THEN 0 ELSE Head(s) + Sum(Tail(s))

(***************************************************************************)
(* calculate_rsi.  A fraction is a record [num, den] with den > 0.         *)
(***************************************************************************)
Frac(n, d) == [num |-> n, den |-> d]

\* np.diff(prices)
diff(ps) == [i \in 1..(Len(ps) - 1) |-> ps[i + 1] - ps[i]]

\* the zeroing of the losses forgotten: every delta counts as a gain
gains_abs(deltas) ==
    [i \in DOMAIN deltas |-> IF deltas[i] > 0 THEN deltas[i] ELSE -deltas[i]]

\* np.where(deltas > 0, deltas, 0)
gains(deltas) ==
    [i \in DOMAIN deltas |-> IF deltas[i] > 0 THEN deltas[i] ELSE 0]

\* np.where(deltas < 0, -deltas, 0)
losses(deltas) ==
    [i \in DOMAIN deltas |-> IF deltas[i] < 0 THEN -deltas[i] ELSE 0]

\* the slice forgotten: the mean runs over every retained delta
window_all(xs, p) == xs

\* the slice [-self.period:] of gains and of losses
window(xs, p) == LastN(xs, p)

\* np.mean of a non-empty array
mean(xs) == Frac(Sum(xs), Len(xs))

\* rs = avg_gain / avg_loss, avg_loss # 0
relative_strength(avg_gain, avg_loss) ==
    Frac(avg_gain.num * avg_loss.den, avg_gain.den * avg_loss.num)

\* sign slip: 100 + (100 / (1 + rs))
rsi_formula_plus(rs) ==
    Frac(100 * (rs.den + rs.num) + 100 * rs.den, rs.den + rs.num)

\* rsi = 100 - (100 / (1 + rs))
rsi_formula(rs) ==
    Frac(100 * (rs.den + rs.num) - 100 * rs.den, rs.den + rs.num)

\* truncation instead of rounding: int(x * 100) / 100
round2_floor(x) == (100 * x.num) \div x.den

\* round(x, 2), in hundredths, ties to even
round2(x) ==
    LET n == 100 * x.num
        q == n \div x.den
        r == n % x.den
    IN  IF 2 * r < x.den THEN q
        ELSE IF 2 * r > x.den THEN q + 1
        ELSE IF q % 2 = 0 THEN q ELSE q + 1

\* off by one: len(prices) <= self.period + 1
enough_data_strict(ps, p) == ~(Len(ps) <= p + 1)

\* line 97, negated: len(prices) < self.period + 1 returns None
enough_data(ps, p) == ~(Len(ps) < p + 1)

calculate_rsi(ps, p) ==
    IF ~enough_data(ps, p) THEN None
    ELSE LET deltas == diff(ps)
             avg_gain == mean(window(gains(deltas), p))
             avg_loss == mean(window(losses(deltas), p))
         IN  IF avg_loss.num = 0 THEN 10000
             ELSE round2(rsi_formula(relative_strength(avg_gain, avg_loss)))

(***************************************************************************)
(* fetch_price.  Each source answers "ok" or fails with one of the kinds   *)
(* the function tells apart: "transport" is a                              *)
(* requests.exceptions.RequestException, "parse" a KeyError or ValueError, *)
(* "unexpected" any other Exception.  Only a RequestException of the first *)
(* source leads to the second one; the result is the kind that fetch_price *)
(* returns with ("ok") or re-raises.                                       *)
(***************************************************************************)
SourceOutcomes == {"ok", "transport", "parse", "unexpected"}
FetchFailures == {"transport", "parse", "unexpected"}

fetch_price(primary, secondary) ==
    IF primary = "transport" THEN secondary ELSE primary

\* the answers of the sources fetch_price has contacted: the second request
\* (line 77) is made only inside "except RequestException" (line 70)
contacted(primary, secondary) ==
    IF primary = "transport" THEN <<primary, secondary>> ELSE <<primary>>

(***************************************************************************)
(* run().                                                                  *)
(***************************************************************************)
\* a handler that lists the anticipated errors only:
\* except (requests.exceptions.RequestException, KeyError, ValueError)
Catches_listed(kind) == kind \in {"transport", "parse", "sleep"}

\* "except Exception" catches every Exception subclass; KeyboardInterrupt
\* is a BaseException and passes through it.
Catches(kind) == kind \in FetchFailures \cup {"sleep"}

\* truthiness test "if rsi:", which also skips 0.0
rsi_truthy(r) == r # None /\ r # 0

\* if rsi is not None
rsi_available(r) == r # None

\* threshold off by one: if len(self.prices) > self.period * 2 + 1
trim_lazy(ps, p) == IF Len(ps) > p * 2 + 1 THEN LastN(ps, p * 2) ELSE ps

\* slice from the wrong end: self.prices[:self.period * 2]
trim_keep_oldest(ps, p) == IF Len(ps) > p * 2 THEN SubSeq(ps, 1, p * 2) ELSE ps

\* self.prices after lines 157-158
trim(ps, p) == IF Len(ps) > p * 2 THEN LastN(ps, p * 2) ELSE ps

\* the cap forgotten: self.api_delay * 2
backoff_uncapped(d) == d * 2

\* the doubling forgotten: min(self.api_delay, 300)
backoff_same(d) == Min(d, MaxBackoff)

\* min(self.api_delay * 2, 300)
backoff_delay(d) == Min(d * 2, MaxBackoff)

\* the jitter scaled: self.api_delay + jitter * 2
normal_delay_wide(d, jitter) == d + jitter * 2

\* self.api_delay + jitter
normal_delay(d, jitter) == d + jitter

\* the append moved out of the success path: a placeholder is stored on failure
observe_always(ps, result, price) == Append(ps, price)

\* self.prices after lines 143-144: the append is skipped when fetch_price raises
observe(ps, result, price) ==
    IF result = "ok" THEN Append(ps, price) ELSE ps

Init ==
    /\ period \in Periods
    /\ api_delay \in ApiDelays
    /\ prices = <<>>
    /\ rsi = None
    /\ pc = "fetch"
    /\ err = "none"
    /\ sleep_dur = 0
    /\ sink = "none"
    /\ log_calls = 0
    /\ fetched = <<>>
    /\ sources = <<>>
    /\ outcome = "running"

\* An exception of the given kind raised inside the try block of run():
\* the handler logs it and calls time.sleep(min(self.api_delay * 2, 300)),
\* which itself raises ValueError out of run() for a negative argument.
Raise(kind) ==
    IF Catches(kind) /\ backoff_delay(api_delay) >= 0
    THEN /\ pc' = "backoff"
         /\ err' = kind
         /\ sleep_dur' = backoff_delay(api_delay)
         /\ outcome' = outcome
    ELSE /\ pc' = "done"
         /\ err' = kind
         /\ sleep_dur' = 0
         /\ outcome' = "raised"

\* lines 143-144: current_price = self.fetch_price(); self.prices.append(...)
FetchPrice ==
    /\ pc = "fetch"
    /\ \E primary \in SourceOutcomes, secondary \in SourceOutcomes, price \in Quotes :
         LET result == fetch_price(primary, secondary) IN
         /\ result = "ok" => Len(fetched) < MaxFetches
         /\ prices' = observe(prices, result, price)
         /\ sources' = contacted(primary, secondary)
         /\ IF result = "ok"
            THEN /\ fetched' = Append(fetched, price)
                 /\ pc' = "calc"
                 /\ UNCHANGED <<err, sleep_dur, outcome>>
            ELSE /\ fetched' = fetched
                 /\ Raise(result)
    /\ UNCHANGED <<period, api_delay, rsi, sink, log_calls>>

\* line 147: rsi = self.calculate_rsi(self.prices)
CalculateRSI ==
    /\ pc = "calc"
    /\ rsi' = calculate_rsi(prices, period)
    /\ pc' = "log"
    /\ sources' = <<>>
    /\ UNCHANGED <<period, api_delay, prices, err, sleep_dur, sink,
                   log_calls, fetched, outcome>>

\* lines 153-154 with log_data (121-133): the row is appended, or to_csv
\* raises and log_data logs the error and returns normally.
LogData ==
    /\ pc = "log"
    /\ IF rsi_available(rsi)
       THEN /\ \E written \in BOOLEAN :
                 sink' = IF written THEN "written" ELSE "failed"
            /\ log_calls' = log_calls + 1
       ELSE UNCHANGED <<sink, log_calls>>
    /\ pc' = "trim"
    /\ UNCHANGED <<period, api_delay, prices, rsi, err, sleep_dur,
                   fetched, sources, outcome>>

\* lines 157-158
TrimPrices ==
    /\ pc = "trim"
    /\ prices' = trim(prices, period)
    /\ pc' = "sleep"
    /\ UNCHANGED <<period, api_delay, rsi, err, sleep_dur, sink,
                   log_calls, fetched, sources, outcome>>

\* lines 161-162: time.sleep raises ValueError for a negative duration
JitterSleep ==
    /\ pc = "sleep"
    /\ \E jitter \in (-JitterRange)..JitterRange :
         IF normal_delay(api_delay, jitter) < 0
         THEN Raise("sleep")
         ELSE /\ pc' = "sleeping"
              /\ sleep_dur' = normal_delay(api_delay, jitter)
              /\ UNCHANGED <<err, outcome>>
    /\ UNCHANGED <<period, api_delay, prices, rsi, sink, log_calls, fetched,
                   sources>>

\* a time.sleep call returns and the while loop starts its next iteration
Wake ==
    /\ pc \in {"sleeping", "backoff"}
    /\ pc' = "fetch"
    /\ err' = "none"
    /\ sleep_dur' = 0
    /\ sink' = "none"
    /\ sources' = <<>>
    /\ UNCHANGED <<period, api_delay, prices, rsi, log_calls, fetched, outcome>>

\* KeyboardInterrupt (Ctrl-C) at any point of run(): not an Exception, so
\* line 164 does not catch it and run() is left where it stands.
Interrupt ==
    /\ pc # "done"
    /\ pc' = "done"
    /\ outcome' = "interrupted"
    /\ UNCHANGED <<period, api_delay, prices, rsi, err, sleep_dur, sink,
                   log_calls, fetched, sources>>

Step ==
    \/ FetchPrice
    \/ CalculateRSI
    \/ LogData
    \/ TrimPrices
    \/ JitterSleep
    \/ Wake

Next == Step \/ Interrupt

Spec == Init /\ [][Next]_vars

\* the loop left alone: no interrupt, and every call returns
LoopSpec == Init /\ [][Step]_vars /\ WF_vars(Step)

(***************************************************************************)
(* calculate_rsi on its own: any sequence of at most MaxLen prices.        *)
(***************************************************************************)
RECURSIVE SeqsUpTo(_, _)
SeqsUpTo(S, n) ==
    IF n = 0 THEN {<<>>}
    ELSE LET shorter == SeqsUpTo(S, n - 1)
         IN  shorter \cup {Append(s, x) : s \in shorter, x \in S}

CalcInit ==
    /\ period \in Periods
    /\ api_delay = 60
    /\ prices \in SeqsUpTo(Prices, MaxLen)
    /\ rsi = None
    /\ pc = "call"
    /\ err = "none"
    /\ sleep_dur = 0
    /\ sink = "none"
    /\ log_calls = 0
    /\ fetched = <<>>
    /\ sources = <<>>
    /\ outcome = "running"

CalcCall ==
    /\ pc = "call"
    /\ rsi' = calculate_rsi(prices, period)
    /\ pc' = "returned"
    /\ UNCHANGED <<period, api_delay, prices, err, sleep_dur, sink,
                   log_calls, fetched, sources, outcome>>

CalcSpec == CalcInit /\ [][CalcCall]_vars

(***************************************************************************)
(* Properties of run(), checked under Spec and LoopSpec.                   *)
(***************************************************************************)
Max(a, b) == IF a > b THEN a ELSE b

\* the newest n elements of s, written out
Newest(s, n) == [i \in 1..n |-> s[Len(s) - n + i]]

AtLoopEnd == outcome = "running" /\ pc \in {"sleep", "sleeping", "backoff", "fetch"}

\* C1: an iteration whose fetch_price raises, whatever the kind, leaves
\* self.prices as it was and makes no log_data call: neither the failing
\* fetch nor the rest of that iteration (the backoff) touches them.
C1_FailedFetchLeavesHistoryAndSink ==
    [][ ( \/ (pc = "fetch" /\ err' \in FetchFailures)
          \/ (pc = "backoff" /\ err \in FetchFailures) )
        => (prices' = prices /\ log_calls' = log_calls /\ sink' = "none") ]_vars

C1_Witness ==
    /\ pc = "backoff"
    /\ err = "parse"
    /\ Len(prices) = 2 * period
    /\ log_calls > 0

C3_NoErrorLeavesLoop == outcome = "running" /\ pc # "done"

C3_Witness ==
    /\ pc = "backoff"
    /\ err = "sleep"
    /\ sink = "failed"
    /\ outcome = "running"

C5_OneLogPerAvailableIndicator ==
    outcome = "running" =>
        /\ pc \in {"trim", "sleep", "sleeping", "backoff", "fetch"}
              => log_calls = Max(0, Len(fetched) - period)
        /\ pc \in {"calc", "log"}
              => log_calls = Max(0, Len(fetched) - 1 - period)
        /\ pc = "trim"
              => ((sink # "none") <=> (Len(fetched) >= period + 1))
        /\ pc # "calc"
              => ((rsi # None) <=> (Len(fetched) >= period + 1))

C5_Witness ==
    /\ pc = "trim"
    /\ rsi = 0
    /\ sink = "written"
    /\ Len(fetched) > period + 1

\* C7: an iteration in which log_data failed goes on as a
\* successful one: it trims, takes the jittered sleep, and never enters the
\* handler with its backoff sleep.
C7_SinkFailureKeepsNormalPath ==
    (sink = "failed" /\ outcome = "running")
        => pc \in {"trim", "sleep", "sleeping"}

\* C11: a jittered normal sleep lasts between api_delay - 2 and
\* api_delay + 2 seconds.
C11_JitteredSleepInRange ==
    pc = "sleeping" =>
        (api_delay - 2 <= sleep_dur /\ sleep_dur <= api_delay + 2)

C11_Witness ==
    /\ pc = "sleeping"
    /\ sleep_dur = api_delay - 2
    /\ sink = "written"

\* C12: with the default api_delay of 60 the backoff after a failure lasts
\* 300 seconds.
C12_DefaultBackoffIs300 ==
    (pc = "backoff" /\ api_delay = DefaultApiDelay) => sleep_dur = 300

\* C13: run() stops on request, and only between iterations: when it has
\* been stopped, the price appended last has been trimmed and, if it gave an
\* indicator, handed to log_data.
C13_StopOnlyBetweenIterations ==
    outcome = "interrupted" =>
        /\ Len(prices) <= 2 * period
        /\ log_calls = Max(0, Len(fetched) - period)

C15_TrimmedBeforeCompute ==
    (outcome = "running" /\ pc = "calc") => Len(prices) <= 2 * period

\* C15 (amended): the history is trimmed after the indicator has been
\* computed and logged: when calculate_rsi reads self.prices inside run(),
\* and until the trim of that iteration, the list has at most
\* 2 * period + 1 entries.
C15_AtMostOneOverBeforeTrim ==
    (outcome = "running" /\ pc \in {"calc", "log", "trim"})
        => Len(prices) <= 2 * period + 1

C15_Witness ==
    /\ outcome = "running"
    /\ pc = "calc"
    /\ Len(prices) = 2 * period + 1

\* C17: an iteration ends in the backoff sleep only if its fetch failed; an
\* iteration whose fetch succeeded ends in the jittered sleep, whose duration
\* is never negative.
C17_BackoffOnlyAfterFailedFetch ==
    pc = "backoff" => err \in FetchFailures

\* C18: whenever the first source fails, for whatever reason, the second one
\* is asked; fetch_price fails only after both have failed.
C18_SecondSourceAfterAnyFailure ==
    (sources # <<>> /\ sources[1] # "ok") => Len(sources) = 2


(***************************************************************************)
(* Properties of calculate_rsi, checked under CalcSpec.                    *)
(***************************************************************************)
Returned == pc = "returned"

\* the i-th of the trailing `period` deltas, i in 1..period
TrailingDelta(i) ==
    prices[Len(prices) - period + i] - prices[Len(prices) - period + i - 1]

\* C6: calculate_rsi returns None for fewer than period + 1 prices and a
\* number for period + 1 prices or more.
C6_NoneIffTooShort ==
    Returned =>
        /\ Len(prices) < period + 1 => rsi = None
        /\ Len(prices) >= period + 1 => (rsi # None /\ rsi \in Int)

C6_Witness ==
    /\ Returned
    /\ Len(prices) = period + 1
    /\ rsi # None

\* C8: with period + 1 prices or more and no negative delta among the
\* trailing `period` deltas (all zero included), the result is exactly 100.0.
C8_NoLossGives100 ==
    (/\ Returned
     /\ Len(prices) >= period + 1
     /\ \A i \in 1..period : TrailingDelta(i) >= 0)
        => rsi = 10000

C8_Witness ==
    /\ Returned
    /\ period >= 2
    /\ Len(prices) > period + 1
    /\ prices[2] < prices[1]
    /\ \A i \in 1..period : TrailingDelta(i) >= 0
    /\ \E i \in 1..period : TrailingDelta(i) = 0
    /\ rsi = 10000

\* C9: a strictly decreasing sequence of period + 1 prices gives 0.0.
C9_DecreasingGives0 ==
    (/\ Returned
     /\ Len(prices) = period + 1
     /\ \A i \in 1..period : TrailingDelta(i) < 0)
        => rsi = 0

C9_Witness ==
    /\ Returned
    /\ period >= 2
    /\ Len(prices) = period + 1
    /\ \A i \in 1..period : TrailingDelta(i) < 0
    /\ rsi = 0

\* C10: a value returned by calculate_rsi lies in [0, 100].
C10_ValueInRange ==
    (Returned /\ rsi # None) => (0 <= rsi /\ rsi <= 10000)

C10_Witness ==
    /\ Returned
    /\ Len(prices) > period + 1
    /\ rsi # None
    /\ rsi > 0
    /\ rsi < 10000

\* the gains and the losses summed over the trailing `period` deltas
TrailingGain ==
    Sum([i \in 1..period |-> IF TrailingDelta(i) > 0 THEN TrailingDelta(i) ELSE 0])

TrailingLoss ==
    Sum([i \in 1..period |-> IF TrailingDelta(i) < 0 THEN -TrailingDelta(i) ELSE 0])

\* n / d to the nearest integer, ties to the even one; d > 0
Nearest(n, d) ==
    LET q == (2 * n + d) \div (2 * d)
    IN  IF (2 * n + d) % (2 * d) = 0 /\ q % 2 = 1 THEN q - 1 ELSE q

\* C16: for period + 1 prices or more the result is 100 * G / (G + L) rounded
\* to two decimals (100.0 when L = 0), G and L being the gains and losses
\* summed over the last `period` deltas; it is the same on the last
\* period + 1 prices alone and on the history trimmed to 2 * period; and
\* period 3 with prices 10, 12, 11, 13 gives 80.00.
C16_OnlyTrailingWindowCounts ==
    /\ (Returned /\ Len(prices) >= period + 1) =>
          /\ rsi = IF TrailingLoss = 0 THEN 10000
                   ELSE Nearest(10000 * TrailingGain, TrailingGain + TrailingLoss)
          /\ rsi = calculate_rsi(LastN(prices, period + 1), period)
          /\ rsi = calculate_rsi(trim(prices, period), period)
    /\ Returned => calculate_rsi(<<10, 12, 11, 13>>, 3) = 8000

C16_Witness ==
    /\ Returned
    /\ Len(prices) > 2 * period
    /\ prices[2] < prices[1]
    /\ TrailingLoss > 0
    /\ TrailingGain > TrailingLoss
    /\ rsi = 6667

====
